---- MODULE Spec2Model ----
(***************************************************************************)
(* A model of the Resolver of resolve-vars (src/src/index.js).  The file   *)
(* holds two variants of the class:                                        *)
(*   "list"   (lines 27-117):  task(keys), var, get, set(name, val);       *)
(*            the cache maps a name to its value.                          *)
(*   "mapped" (lines 152-262): task(vars), var, _get, set(name, path, val);*)
(*            the cache maps a local name to an entry {path, value}.       *)
(* A behaviour runs one of the two (variable variant).  The Consul client  *)
(* is the environment: a request is sent, served by the store at some      *)
(* later moment, and its callback is handled at some moment after that.    *)
(***************************************************************************)
EXTENDS Integers, Sequences, FiniteSets, TLC

\* ---------------------------------------------------------------- bounds
MaxCalls == 3
MaxReads == 2
MaxSets == 2

\* ------------------------------------------------------------ the universe
Names == {"a", "b"}
Paths == {"a", "k"}
Keys == Names \cup Paths
Values == {"v1", "v2"}
Errors == 1..(MaxReads + MaxSets)
Undef == "undefined"
NoErr == 0
Thrown == MaxReads + MaxSets + 1
NameOrder == <<"a", "b">>

VARIABLES
  variant,   \* which of the two classes of the file is running
  store,     \* the remote key-value store: key -> value or Undef
  _vars,     \* this._vars, a function whose DOMAIN is the object's keys
  tasks,     \* the closures created by task(...)
  runs,      \* the invocations of the functions returned by task(...); out: the
             \* calls of the handler, seen: the reads handled before them
  gets,      \* the remote reads issued by get/_get, in order of issue
  sets,      \* the calls of set, in order of call
  varCalls,  \* the calls of var and what they returned, in order of call
  writer,    \* history: the operation that last assigned _vars[name]
  storeBy    \* history: the set whose write the store applied last at a key

allVars == <<variant, store, _vars, tasks, runs, gets, sets, varCalls, writer, storeBy>>

\* ------------------------------------------------------------------ helpers
Pending == [state |-> "pending", value |-> Undef]
Resolved(v) == [state |-> "resolved", value |-> v]
Rejected(e) == [state |-> "rejected", value |-> e]

NoRes == [isObj |-> FALSE, Value |-> Undef]
NoWriter == [op |-> "none", id |-> 0]

\* f with x mapped to v, x added to the domain when it is not a key yet
Put(f, x, v) == [y \in (DOMAIN f) \cup {x} |-> IF y = x THEN v ELSE f[y]]

\* Object.keys(vars): the names of the object (in the order of NameOrder)
ObjectKeys(o) == SelectSeq(NameOrder, LAMBDA n : n \in DOMAIN o)

\* the sequences over S of length at most n
SeqsUpTo(S, n) == UNION {[1..m -> S] : m \in 0..n}

\* ------------------------------------------------------- the Consul client
\* kv.get: the result object of a read of key, undefined when the key is unset
KvGet(st, key) ==
  IF st[key] = Undef THEN NoRes ELSE [isObj |-> TRUE, Value |-> st[key]]

\* kv.set: the store after the write is applied
KvSet(st, key, val) == [st EXCEPT ![key] = val]

\* ------------------------------------------------------------ the Resolver
\* res && res.Value
ResValue(res) == IF res.isObj THEN res.Value ELSE Undef

\* var(name)
Var(cache, name) ==
  IF variant = "list"
  THEN IF name \in DOMAIN cache THEN cache[name] ELSE Undef
  ELSE IF name \in DOMAIN cache THEN cache[name].value ELSE Undef

\* a faulty variant:var creates the entry it looks up
VarCacheVivify(cache, name) ==
  IF name \in DOMAIN cache THEN cache
  ELSE Put(cache, name, IF variant = "list" THEN Undef ELSE [path |-> name, value |-> Undef])

\* the cache after a call of var(name)
VarCache(cache, name) == cache

\* a faulty variant:registration keeps the value of an entry that exists
TaskRegisterKeep(cache, vs) ==
  [n \in (DOMAIN cache) \cup (DOMAIN vs) |->
     IF n \in DOMAIN vs
     THEN [path |-> vs[n], value |-> IF n \in DOMAIN cache THEN cache[n].value ELSE Undef]
     ELSE cache[n]]

\* task(vars), mapped: this._vars[key] = {path: vars[key]} for every key
TaskRegister(cache, vs) ==
  [n \in (DOMAIN cache) \cup (DOMAIN vs) |->
     IF n \in DOMAIN vs THEN [path |-> vs[n], value |-> Undef] ELSE cache[n]]

\* the remote key a task reads for keys[i]
TaskPath(t, key) == IF variant = "list" THEN key ELSE t.vars[key]

\* a faulty variant:a read does not replace a value that is already cached
GetCacheKeep(cache, name, val) ==
  IF Var(cache, name) # Undef THEN cache
  ELSE IF variant = "list" THEN Put(cache, name, val)
  ELSE [cache EXCEPT ![name].value = val]

\* a faulty variant:a read that found no value is not cached
GetCacheTruthy(cache, name, val) ==
  IF val = Undef THEN cache
  ELSE IF variant = "list" THEN Put(cache, name, val)
  ELSE [cache EXCEPT ![name].value = val]

\* the success branch of the read callback: cache the value
GetCache(cache, name, val) ==
  IF variant = "list"
  THEN Put(cache, name, val)
  ELSE [cache EXCEPT ![name].value = val]

\* a faulty variant:the value is cached before the error is looked at
GetCachedEager(cache, err, name, val) == GetCache(cache, name, val)

\* the cache after the read callback: if (err) reject(err); else { cache }
GetCached(cache, err, name, val) ==
  IF err # NoErr THEN cache ELSE GetCache(cache, name, val)

\* a faulty variant:a read that found no value is reported as a failure
GetPromiseAbsentFails(err, val) ==
  IF err # NoErr THEN Rejected(err)
  ELSE IF val = Undef THEN Rejected(Thrown)
  ELSE Resolved(val)

\* the promise of get after the read callback
GetPromise(err, val) == IF err # NoErr THEN Rejected(err) ELSE Resolved(val)

\* a faulty variant:the two-argument form is not recognised
SetArgsAsPassed(name, path, val) == [name |-> name, path |-> path, val |-> val]

\* the head of set, mapped: the two-argument form
SetArgs(name, path, val) ==
  IF val = Undef
  THEN [name |-> name, path |-> name, val |-> path]
  ELSE [name |-> name, path |-> path, val |-> val]

\* a faulty variant:the written value is not cached
SetCacheDropped(cache, name, path, val) == cache

\* a faulty variant:the entry records the local name as its remote key
SetCacheNamePath(cache, name, path, val) ==
  IF variant = "list"
  THEN Put(cache, name, val)
  ELSE Put(cache, name, [path |-> name, value |-> val])

\* a faulty variant:the entry is stored under the remote key
SetCacheByPath(cache, name, path, val) ==
  IF variant = "list"
  THEN Put(cache, path, val)
  ELSE Put(cache, path, [path |-> path, value |-> val])

\* the success branch of the write callback: cache the value
SetCache(cache, name, path, val) ==
  IF variant = "list"
  THEN Put(cache, name, val)
  ELSE Put(cache, name, [path |-> path, value |-> val])

\* a faulty variant:the value is cached before the error is looked at
SetCachedEager(cache, err, name, path, val) == SetCache(cache, name, path, val)

\* the cache after the write callback: if (err) reject(err); else { cache }
SetCached(cache, err, name, path, val) ==
  IF err # NoErr THEN cache ELSE SetCache(cache, name, path, val)

\* the promise of set after the write callback
SetPromise(err) == IF err # NoErr THEN Rejected(err) ELSE Resolved(Undef)

\* ------------------------------------------------------------------- Init
InitStore == [k \in Keys |-> IF k = "b" THEN "v1" ELSE IF k = "k" THEN "v2" ELSE Undef]

Init ==
  /\ variant \in {"list", "mapped"}
  /\ store = InitStore
  /\ _vars = <<>>
  /\ tasks = <<>>
  /\ runs = <<>>
  /\ gets = <<>>
  /\ sets = <<>>
  /\ varCalls = <<>>
  /\ writer = [n \in Names |-> NoWriter]
  /\ storeBy = [k \in Keys |-> 0]

\* ------------------------------------------------------------- operations
\* the calls of task, of the functions it returned, of get and of set so far
Calls == Len(tasks) + Len(runs) + Len(sets) + Len(varCalls)
         + Cardinality({g \in 1..Len(gets) : gets[g].run = 0})

\* the reads of run r, by position in keys
ReadOf(r, i) == CHOOSE g \in 1..Len(gets) : gets[g].run = r /\ gets[g].idx = i

\* a faulty variant:a batch of no promise never settles
PromiseAllStuck(all, ps, p) ==
  IF all.state # "pending" \/ Len(ps) = 0 THEN all
  ELSE IF p.state = "rejected" THEN Rejected(p.value)
  ELSE IF \A i \in 1..Len(ps) : ps[i].state = "resolved" THEN Resolved(Undef)
  ELSE all

\* a faulty variant:the batch settles as the promise that settled last
PromiseAllLast(all, ps, p) ==
  IF all.state # "pending" THEN all
  ELSE IF \E i \in 1..Len(ps) : ps[i].state = "pending" THEN all
  ELSE IF p.state = "rejected" THEN Rejected(p.value)
  ELSE Resolved(Undef)

\* Promise.all: the aggregate promise after one of its promises settled
\* (ps: the promises of the batch after the settlement, p: the settled one)
PromiseAll(all, ps, p) ==
  IF all.state # "pending" THEN all
  ELSE IF p.state = "rejected" THEN Rejected(p.value)
  ELSE IF \A i \in 1..Len(ps) : ps[i].state = "resolved" THEN Resolved(Undef)
  ELSE all

\* a faulty variant:a name that is already in ret keeps its first value
RECURSIVE RetLoopFirst(_, _, _, _)
RetLoopFirst(keys, vals, i, ret) ==
  IF i > Len(keys) THEN ret
  ELSE RetLoopFirst(keys, vals, i + 1,
                    IF keys[i] \in DOMAIN ret THEN ret ELSE Put(ret, keys[i], vals[i]))

\* the loop of the list variant's then-callback: ret[keys[i]] = vals[i]
RECURSIVE RetLoop(_, _, _, _)
RetLoop(keys, vals, i, ret) ==
  IF i > Len(keys) THEN ret
  ELSE RetLoop(keys, vals, i + 1, Put(ret, keys[i], vals[i]))

\* a faulty variant:the error of a rejected batch is not passed on
RunOutcomeSwallow(all, keys, vals) ==
  IF variant = "list" THEN [err |-> NoErr, ret |-> RetLoop(keys, vals, 1, <<>>)]
  ELSE [err |-> NoErr, ret |-> <<>>]

\* what a settled run reports: the argument of cb (mapped), or the
\* settlement of the returned promise (list)
RunOutcome(all, keys, vals) ==
  IF all.state = "rejected" THEN [err |-> all.value, ret |-> <<>>]
  ELSE IF variant = "list" THEN [err |-> NoErr, ret |-> RetLoop(keys, vals, 1, <<>>)]
  ELSE [err |-> NoErr, ret |-> <<>>]

\* task(keys), list variant: only builds the closure
TaskList(keys) ==
  /\ variant = "list"
  /\ Calls < MaxCalls
  /\ tasks' = Append(tasks, [keys |-> keys, vars |-> <<>>])
  /\ UNCHANGED <<variant, store, _vars, runs, gets, sets, varCalls, writer, storeBy>>

\* task(vars), mapped variant: registers every name, then builds the closure
TaskMapped(vs) ==
  /\ variant = "mapped"
  /\ Calls < MaxCalls
  /\ _vars' = TaskRegister(_vars, vs)
  /\ tasks' = Append(tasks, [keys |-> ObjectKeys(vs), vars |-> vs])
  /\ writer' = [n \in Names |->
                  IF n \in DOMAIN vs THEN [op |-> "task", id |-> Len(tasks) + 1]
                  ELSE writer[n]]
  /\ UNCHANGED <<variant, store, runs, gets, sets, varCalls, storeBy>>

\* a faulty variant:only the read of the first key is issued in the call
RunBatchSerial(t, r) ==
  [i \in 1..(IF Len(tasks[t].keys) > 0 THEN 1 ELSE 0) |->
     [run |-> r, idx |-> i, name |-> tasks[t].keys[i],
      path |-> TaskPath(tasks[t], tasks[t].keys[i]),
      phase |-> "sent", err |-> NoErr, res |-> NoRes, promise |-> Pending]]

\* a faulty variant:a task that ran before reuses what it fetched and reads nothing
RunBatchMemo(t, r) ==
  IF \E q \in 1..Len(runs) : runs[q].task = t THEN <<>>
  ELSE [i \in 1..Len(tasks[t].keys) |->
          [run |-> r, idx |-> i, name |-> tasks[t].keys[i],
           path |-> TaskPath(tasks[t], tasks[t].keys[i]),
           phase |-> "sent", err |-> NoErr, res |-> NoRes, promise |-> Pending]]

\* keys.map((key) => this.get(key)): the reads invocation r of task t issues
RunBatch(t, r) ==
  [i \in 1..Len(tasks[t].keys) |->
     [run |-> r, idx |-> i, name |-> tasks[t].keys[i],
      path |-> TaskPath(tasks[t], tasks[t].keys[i]),
      phase |-> "sent", err |-> NoErr, res |-> NoRes, promise |-> Pending]]

\* the function returned by task, invoked: one read per key, all issued in
\* the call (keys.map runs every promise executor synchronously)
Run(t) ==
  /\ t \in 1..Len(tasks)
  /\ Calls < MaxCalls
  /\ Len(gets) + Len(tasks[t].keys) <= MaxReads
  /\ LET r == Len(runs) + 1
         keys == tasks[t].keys
         batch == RunBatch(t, r)
     IN /\ gets' = gets \o batch
        /\ runs' = Append(runs, [task |-> t,
                                 all |-> PromiseAll(Pending,
                                                    [i \in 1..Len(keys) |-> Pending],
                                                    Pending),
                                 order |-> <<>>,
                                 seen |-> 0,
                                 out |-> <<>>])
  /\ UNCHANGED <<variant, store, _vars, tasks, sets, varCalls, writer, storeBy>>

\* get(name), list variant, called by the user: one read
Get(name) ==
  /\ variant = "list"
  /\ Calls < MaxCalls
  /\ Len(gets) < MaxReads
  /\ gets' = Append(gets, [run |-> 0, idx |-> 0, name |-> name, path |-> name,
                           phase |-> "sent", err |-> NoErr, res |-> NoRes,
                           promise |-> Pending])
  /\ UNCHANGED <<variant, store, _vars, tasks, runs, sets, varCalls, writer, storeBy>>

\* the store serves a read: an error (the code passes errors on without
\* looking at them, so each request fails with an error of its own), or the
\* value the store holds at this moment
GetServe(g) ==
  /\ g \in 1..Len(gets)
  /\ gets[g].phase = "sent"
  /\ \/ gets' = [gets EXCEPT ![g].phase = "served", ![g].err = g]
     \/ gets' = [gets EXCEPT ![g].phase = "served",
                             ![g].res = KvGet(store, gets[g].path)]
  /\ UNCHANGED <<variant, store, _vars, tasks, runs, sets, varCalls, writer, storeBy>>

\* the callback of kv.get is handled: (err, res) => { ... }
GetCallback(g) ==
  /\ g \in 1..Len(gets)
  /\ gets[g].phase = "served"
  /\ LET rd == gets[g]
         val == ResValue(rd.res)
         throws == rd.err = NoErr /\ variant = "mapped" /\ rd.name \notin DOMAIN _vars
         p == IF throws THEN Pending ELSE GetPromise(rd.err, val)
         after == [gets EXCEPT ![g].phase = "done", ![g].promise = p]
     IN /\ gets' = after
        /\ _vars' = IF throws THEN _vars ELSE GetCached(_vars, rd.err, rd.name, val)
        /\ writer' = IF rd.err = NoErr /\ ~throws
                     THEN [writer EXCEPT ![rd.name] = [op |-> "get", id |-> g]]
                     ELSE writer
        /\ IF rd.run = 0 \/ p.state = "pending"
           THEN UNCHANGED runs
           ELSE LET n == Len(tasks[runs[rd.run].task].keys)
                    ps == [i \in 1..n |->
                             after[CHOOSE h \in 1..Len(after) :
                                     after[h].run = rd.run /\ after[h].idx = i].promise]
                IN runs' = [runs EXCEPT
                              ![rd.run].all = PromiseAll(runs[rd.run].all, ps, p),
                              ![rd.run].order = Append(runs[rd.run].order, rd.idx)]
  /\ UNCHANGED <<variant, store, tasks, sets, varCalls, storeBy>>

\* the calls of the handler made by .then(() => cb()).catch((err) => cb(err)):
\* catch is chained on the promise of then, so an error that cb() throws
\* rejects that promise and cb is called again, with the error it threw
HandlerCalls(first, throws) ==
  IF variant = "mapped" /\ first.err = NoErr /\ throws
  THEN <<first, [err |-> Thrown, ret |-> <<>>]>>
  ELSE <<first>>

\* a faulty variant:a run that reports an error drops its reads in flight
NotifyCancel(r) ==
  /\ r \in 1..Len(runs)
  /\ runs[r].all.state # "pending"
  /\ runs[r].out = <<>>
  /\ LET keys == tasks[runs[r].task].keys
         vals == [i \in 1..Len(keys) |-> gets[ReadOf(r, i)].promise.value]
     IN \E throws \in BOOLEAN :
          /\ throws => (variant = "mapped" /\ runs[r].all.state = "resolved")
          /\ runs' = [runs EXCEPT
                        ![r].out = HandlerCalls(RunOutcome(runs[r].all, keys, vals), throws),
                        ![r].seen = Len(runs[r].order)]
  /\ gets' = [g \in 1..Len(gets) |->
                IF gets[g].run = r /\ gets[g].phase # "done" /\ runs[r].all.state = "rejected"
                THEN [gets[g] EXCEPT !.phase = "done"]
                ELSE gets[g]]
  /\ UNCHANGED <<variant, store, _vars, tasks, sets, varCalls, writer, storeBy>>

\* the handlers chained on Promise.all run: .then(() => cb()) and
\* .catch((err) => cb(err)) (mapped), .then((vals) => ret) (list); the
\* handler the caller passed returns or throws
Notify(r) ==
  /\ r \in 1..Len(runs)
  /\ runs[r].all.state # "pending"
  /\ runs[r].out = <<>>
  /\ LET keys == tasks[runs[r].task].keys
         vals == [i \in 1..Len(keys) |-> gets[ReadOf(r, i)].promise.value]
     IN \E throws \in BOOLEAN :
          /\ throws => (variant = "mapped" /\ runs[r].all.state = "resolved")
          /\ runs' = [runs EXCEPT
                        ![r].out = HandlerCalls(RunOutcome(runs[r].all, keys, vals), throws),
                        ![r].seen = Len(runs[r].order)]
  /\ UNCHANGED <<variant, store, _vars, tasks, gets, sets, varCalls, writer, storeBy>>

\* a call of set: kv.set(path, val, cb) is sent
SetSend(argc, a1, a2, a3, args) ==
  /\ Len(sets) < MaxSets
  /\ Calls < MaxCalls
  /\ sets' = Append(sets, [argc |-> argc, a1 |-> a1, a2 |-> a2, a3 |-> a3,
                           name |-> args.name, path |-> args.path, val |-> args.val,
                           phase |-> "sent", err |-> NoErr, applied |-> FALSE,
                           promise |-> Pending])
  /\ UNCHANGED <<variant, store, _vars, tasks, runs, gets, varCalls, writer, storeBy>>

\* set(name, val), list variant
SetList(name, val) ==
  /\ variant = "list"
  /\ SetSend(2, name, val, Undef, [name |-> name, path |-> name, val |-> val])

\* set(name, val), mapped variant, called with two arguments
SetMapped2(name, val) ==
  /\ variant = "mapped"
  /\ SetSend(2, name, val, Undef, SetArgs(name, val, Undef))

\* set(name, path, val), mapped variant, called with three arguments
SetMapped3(name, path, val) ==
  /\ variant = "mapped"
  /\ SetSend(3, name, path, val, SetArgs(name, path, val))

\* the store serves a write: applied and acknowledged, or refused with an
\* error of its own
SetServe(s) ==
  /\ s \in 1..Len(sets)
  /\ sets[s].phase = "sent"
  /\ \E applied \in BOOLEAN :
       /\ sets' = [sets EXCEPT ![s].phase = "served",
                               ![s].applied = applied,
                               ![s].err = IF applied THEN NoErr ELSE MaxReads + s]
       /\ IF applied
          THEN /\ store' = KvSet(store, sets[s].path, sets[s].val)
               /\ storeBy' = [storeBy EXCEPT ![sets[s].path] = s]
          ELSE UNCHANGED <<store, storeBy>>
  /\ UNCHANGED <<variant, _vars, tasks, runs, gets, varCalls, writer>>

\* the callback of kv.set is handled: (err) => { ... }
SetCallback(s) ==
  /\ s \in 1..Len(sets)
  /\ sets[s].phase = "served"
  /\ LET w == sets[s]
     IN /\ _vars' = SetCached(_vars, w.err, w.name, w.path, w.val)
        /\ sets' = [sets EXCEPT ![s].phase = "done", ![s].promise = SetPromise(w.err)]
        /\ writer' = IF w.err = NoErr
                     THEN [writer EXCEPT ![w.name] = [op |-> "set", id |-> s]]
                     ELSE writer
  /\ UNCHANGED <<variant, store, tasks, runs, gets, varCalls, storeBy>>

\* var(name), called by the user
VarCall(name) ==
  /\ Calls < MaxCalls
  /\ varCalls' = Append(varCalls, [name |-> name, value |-> Var(_vars, name)])
  /\ _vars' = VarCache(_vars, name)
  /\ UNCHANGED <<variant, store, tasks, runs, gets, sets, writer, storeBy>>

\* the inputs of task
TaskKeys == SeqsUpTo(Names, Cardinality(Names))
TaskVars == {vs \in UNION {[S -> Paths] : S \in SUBSET Names} :
               "b" \in DOMAIN vs => ("a" \in DOMAIN vs /\ vs["a"] = "k" /\ vs["b"] = "a")}

\* the names passed to set, and the remote keys passed to its three-argument form
SetNames == {"a"}
SetPaths == {"k"}

Next ==
  \/ \E keys \in TaskKeys : TaskList(keys)
  \/ \E vs \in TaskVars : TaskMapped(vs)
  \/ \E t \in 1..Len(tasks) : Run(t)
  \/ \E name \in Names : Get(name)
  \/ \E g \in 1..Len(gets) : GetServe(g)
  \/ \E g \in 1..Len(gets) : GetCallback(g)
  \/ \E r \in 1..Len(runs) : Notify(r)
  \/ \E name \in SetNames, val \in Values : SetList(name, val)
  \/ \E name \in SetNames, val \in Values : SetMapped2(name, val)
  \/ \E name \in SetNames, path \in SetPaths, val \in Values \cup {Undef} :
       SetMapped3(name, path, val)
  \/ \E s \in 1..Len(sets) : SetServe(s)
  \/ \E s \in 1..Len(sets) : SetCallback(s)
  \/ \E name \in Names : VarCall(name)

Spec == Init /\ [][Next]_allVars

\* ================================================================= claims
\* the keys of run r, and the read it issued for position i
RunKeys(r) == tasks[runs[r].task].keys
RunRead(r, i) == gets[ReadOf(r, i)]

\* run r reports its outcome in this step
Reports(r) == runs[r].out = <<>> /\ runs'[r].out # <<>>

\* the callback of read g, of write s, is handled in this step
GetHandled(g) == gets[g].phase = "served" /\ gets'[g].phase = "done"
SetHandled(s) == sets[s].phase = "served" /\ sets'[s].phase = "done"

\* the cache entry of name was last assigned by the callback of read g
LastWrittenByGet(n, g) == writer[n] = [op |-> "get", id |-> g]

\* C1 as stated: whenever the handler of a mapped task run is called with no
\* error, var(name) returns, for every pair of the task, the value read(key)
\* returned in that run, whatever was interleaved with the run.
C1_AsStated ==
  [][\A r \in 1..Len(runs) :
       (variant = "mapped" /\ Reports(r) /\ runs'[r].out[1].err = NoErr)
       => \A i \in 1..Len(RunKeys(r)) :
            Var(_vars', RunKeys(r)[i]) = ResValue(RunRead(r, i).res)]_allVars

\* C1 amended: whenever the handler of a mapped task run is called with no
\* error, var(name) returns the value read(key) returned in that run for
\* every pair of the task whose cache entry was last assigned by that read
\* (no set completion, registration or read of another run for the same
\* name was handled after it).
C1_HandlerSeesReadValues ==
  [][\A r \in 1..Len(runs) :
       (variant = "mapped" /\ Reports(r) /\ runs'[r].out[1].err = NoErr)
       => \A i \in 1..Len(RunKeys(r)) :
            LastWrittenByGet(RunKeys(r)[i], ReadOf(r, i))
            => Var(_vars', RunKeys(r)[i]) = ResValue(RunRead(r, i).res)]_allVars

\* a mapped run over two keys reported success and both names still hold
\* what its reads returned
C1_Witness ==
  \E r \in 1..Len(runs) :
    /\ variant = "mapped"
    /\ Len(RunKeys(r)) = 2
    /\ runs[r].out # <<>> /\ runs[r].out[1].err = NoErr
    /\ \A i \in 1..2 :
         /\ LastWrittenByGet(RunKeys(r)[i], ReadOf(r, i))
         /\ RunRead(r, i).res.isObj
         /\ Var(_vars, RunKeys(r)[i]) = RunRead(r, i).res.Value

\* the positions of run r whose read failed, in order of completion
FailedOrder(r) == SelectSeq(runs[r].order, LAMBDA i : RunRead(r, i).promise.state = "rejected")

\* the positions of run r whose read completed before the first failure
BeforeFailure(r) ==
  LET o == runs[r].order
      f == CHOOSE j \in 1..Len(o) : o[j] = FailedOrder(r)[1]
  IN {o[j] : j \in 1..(f - 1)}

\* C2: a bulk run in which a read failed reports exactly the error of its
\* first failed read to complete, never success, and every read of the batch
\* that completed successfully before that failure keeps its fetched value
\* in the cache (no rollback): var(name) returns it as long as no other
\* operation assigned the name since.
C2_FirstErrorNoRollback ==
  \A r \in 1..Len(runs) :
    FailedOrder(r) # <<>> =>
      /\ runs[r].out # <<>> =>
           /\ Len(runs[r].out) = 1
           /\ runs[r].out[1].err = RunRead(r, FailedOrder(r)[1]).err
           /\ runs[r].out[1].err \in Errors
      /\ \A i \in BeforeFailure(r) :
           LastWrittenByGet(RunKeys(r)[i], ReadOf(r, i))
           => Var(_vars, RunKeys(r)[i]) = ResValue(RunRead(r, i).res)

\* a run over two keys whose first read stored a value and whose second
\* read failed has reported that error, and var still returns the value
C2_Witness ==
  \E r \in 1..Len(runs) :
    /\ Len(runs[r].order) = 2
    /\ Len(FailedOrder(r)) = 1
    /\ BeforeFailure(r) # {}
    /\ runs[r].out # <<>>
    /\ runs[r].out[1].err = RunRead(r, 2).err
    /\ \A i \in BeforeFailure(r) :
         /\ RunRead(r, i).res.isObj
         /\ Var(_vars, RunKeys(r)[i]) = RunRead(r, i).res.Value

\* a run whose two reads failed with different errors has reported the first
C2_WitnessTwoErrors ==
  \E r \in 1..Len(runs) :
    /\ Len(FailedOrder(r)) = 2
    /\ RunRead(r, FailedOrder(r)[1]).err # RunRead(r, FailedOrder(r)[2]).err
    /\ runs[r].out # <<>>

\* C3: once a call set(x, v) has resolved, var(x) returns v, and the set
\* issued no remote read, neither in the call nor in its completion.
C3_WriteThrough ==
  [][/\ \A s \in 1..Len(sets) :
          (sets[s].argc = 2 /\ SetHandled(s) /\ sets'[s].promise.state = "resolved")
          => /\ Var(_vars', sets[s].a1) = sets[s].a2
             /\ gets' = gets
     /\ Len(sets') > Len(sets) => gets' = gets]_allVars

\* a two-argument set has resolved and var returns the value it wrote, which
\* replaced another value
C3_Witness ==
  \E s \in 1..Len(sets) :
    /\ sets[s].argc = 2
    /\ sets[s].promise.state = "resolved"
    /\ writer[sets[s].a1] = [op |-> "set", id |-> s]
    /\ Var(_vars, sets[s].a1) = sets[s].a2
    /\ \E g \in 1..Len(gets) :
         /\ gets[g].name = sets[s].a1
         /\ gets[g].promise.state = "resolved"
         /\ gets[g].promise.value # sets[s].a2

\* C4: when the remote write of a set fails, the promise of set rejects
\* with exactly the error the client reported and the cache is what it was
\* before the failure was handled; a set changes the cache only in the step
\* that handles its success.
C4_SetFailureLeavesCache ==
  [][\A s \in 1..Len(sets) :
       SetHandled(s) =>
         IF sets[s].err # NoErr
         THEN /\ sets'[s].promise = Rejected(sets[s].err)
              /\ _vars' = _vars
         ELSE sets'[s].promise.state = "resolved"]_allVars

\* a set has been rejected with the client's error while the cache holds an
\* entry for its name
C4_Witness ==
  \E s \in 1..Len(sets) :
    /\ sets[s].err # NoErr
    /\ sets[s].promise = Rejected(sets[s].err)
    /\ sets[s].name \in DOMAIN _vars
    /\ Var(_vars, sets[s].name) \notin {Undef, sets[s].val}

\* C5: a call of get issues exactly one remote read; when the read succeeds
\* the fetched value is cached under the local name and the promise resolves
\* with that same value; when it fails the promise rejects with the client's
\* error and the cache is unchanged.
C5_SingleFetch ==
  [][/\ (\E g \in 1..Len(gets') : g > Len(gets) /\ gets'[g].run = 0)
        => Len(gets') = Len(gets) + 1
     /\ \A g \in 1..Len(gets) :
          GetHandled(g) =>
            /\ gets' = [gets EXCEPT ![g].phase = "done", ![g].promise = gets'[g].promise]
            /\ IF gets[g].err = NoErr
               THEN /\ gets'[g].promise = Resolved(ResValue(gets[g].res))
                    /\ Var(_vars', gets[g].name) = ResValue(gets[g].res)
               ELSE /\ gets'[g].promise = Rejected(gets[g].err)
                    /\ _vars' = _vars]_allVars

\* a get called by the user has resolved with a value that var returns, and
\* another read has been rejected
C5_Witness ==
  \E g \in 1..Len(gets) :
    /\ gets[g].run = 0
    /\ gets[g].promise.state = "resolved"
    /\ gets[g].promise.value # Undef
    /\ Var(_vars, gets[g].name) = gets[g].promise.value
    /\ \E h \in 1..Len(gets) : gets[h].promise.state = "rejected"

\* name was registered by a task, written by a successful set, or stored by
\* a successful read
Touched(n) ==
  \/ \E t \in 1..Len(tasks) : \E i \in 1..Len(tasks[t].keys) : tasks[t].keys[i] = n
  \/ \E s \in 1..Len(sets) : sets[s].name = n /\ sets[s].promise.state = "resolved"
  \/ \E g \in 1..Len(gets) : gets[g].name = n /\ gets[g].promise.state = "resolved"

C7_VarIsPure ==
  [][Len(varCalls') > Len(varCalls) =>
       /\ _vars' = _vars
       /\ gets' = gets
       /\ sets' = sets
       /\ store' = store
       /\ varCalls'[Len(varCalls')].value = Var(_vars, varCalls'[Len(varCalls')].name)]_allVars

\* var was called and returned a cached value while a request was in flight,
\* and was called for a name without an entry
C7_Witness ==
  \E c \in 1..Len(varCalls) :
    /\ varCalls[c].value # Undef
    /\ \E g \in 1..Len(gets) : gets[g].phase # "done"

\* C8: no memoization at the task level: every invocation of the function
\* returned by task issues one new read for every key of the task, so the
\* reads of a key number its invocations, and a run that succeeded left in
\* the cache the values its own reads returned (for every name no later
\* operation assigned).
C8_NoMemoization ==
  /\ \A r \in 1..Len(runs) : \A i \in 1..Len(RunKeys(r)) :
       /\ Cardinality({g \in 1..Len(gets) : gets[g].run = r /\ gets[g].idx = i}) = 1
       /\ RunRead(r, i).name = RunKeys(r)[i]
       /\ RunRead(r, i).path = TaskPath(tasks[runs[r].task], RunKeys(r)[i])
  /\ \A t \in 1..Len(tasks) : \A i \in 1..Len(tasks[t].keys) :
       Cardinality({g \in 1..Len(gets) :
                      gets[g].run # 0 /\ runs[gets[g].run].task = t /\ gets[g].idx = i})
       = Cardinality({r \in 1..Len(runs) : runs[r].task = t})
  /\ \A r \in 1..Len(runs) :
       (runs[r].out # <<>> /\ runs[r].out[1].err = NoErr) =>
         \A i \in 1..Len(RunKeys(r)) :
           /\ RunRead(r, i).promise = Resolved(ResValue(RunRead(r, i).res))
           /\ LastWrittenByGet(RunKeys(r)[i], ReadOf(r, i))
              => Var(_vars, RunKeys(r)[i]) = ResValue(RunRead(r, i).res)

\* the same task was invoked twice, two reads of its key were issued, and
\* both invocations succeeded
C8_Witness ==
  \E r1, r2 \in 1..Len(runs) :
    /\ r1 < r2
    /\ runs[r1].task = runs[r2].task
    /\ Len(RunKeys(r1)) = 1
    /\ ReadOf(r1, 1) # ReadOf(r2, 1)
    /\ runs[r1].out # <<>> /\ runs[r1].out[1].err = NoErr
    /\ runs[r2].out # <<>> /\ runs[r2].out[1].err = NoErr
    /\ LastWrittenByGet(RunKeys(r2)[1], ReadOf(r2, 1))

\* the store applies the write of set s in this step
SetApplied(s) == sets[s].phase = "sent" /\ sets'[s].phase = "served" /\ sets'[s].applied

\* set s, mapped, writes val to key and on success records {key, val} under name
SetWritesAndRecords(s, name, key, val) ==
  /\ SetApplied(s) => store'[key] = val
  /\ (SetHandled(s) /\ sets[s].err = NoErr)
     => (name \in DOMAIN _vars' /\ _vars'[name] = [path |-> key, value |-> val])

\* C9 as stated: in the mapped variant a three-argument call
\* set(localName, remoteKey, value) writes value to remoteKey and on success
\* records {remoteKey, value} under localName, a two-argument call
\* set(name, value) writes value to the key name and caches it under name,
\* the form being decided by the call shape for every value passed.
C9_AsStated ==
  [][\A s \in 1..Len(sets) :
       variant = "mapped" =>
         IF sets[s].argc = 3
         THEN SetWritesAndRecords(s, sets[s].a1, sets[s].a2, sets[s].a3)
         ELSE SetWritesAndRecords(s, sets[s].a1, sets[s].a1, sets[s].a2)]_allVars

\* C9 amended: as stated for every value but undefined; a three-argument
\* call whose value is undefined is handled as the two-argument call
\* set(localName, remoteKey): it writes remoteKey, as the value, to the key
\* localName and records {localName, remoteKey} under localName.
C9_SetForms ==
  [][\A s \in 1..Len(sets) :
       variant = "mapped" =>
         IF sets[s].argc = 3 /\ sets[s].a3 # Undef
         THEN SetWritesAndRecords(s, sets[s].a1, sets[s].a2, sets[s].a3)
         ELSE SetWritesAndRecords(s, sets[s].a1, sets[s].a1, sets[s].a2)]_allVars

\* a three-argument set with a value and a two-argument set have both
\* succeeded; the store and the cache hold what the later one wrote
C9_Witness ==
  \E s, u \in 1..Len(sets) :
    /\ variant = "mapped"
    /\ sets[s].argc = 3 /\ sets[s].a3 # Undef
    /\ sets[s].promise.state = "resolved"
    /\ store[sets[s].a2] = sets[s].a3
    /\ sets[u].argc = 2
    /\ sets[u].promise.state = "resolved"
    /\ store[sets[u].a1] = sets[u].a2
    /\ _vars[sets[u].a1] = [path |-> sets[u].a1, value |-> sets[u].a2]

\* no request is in flight and no settled run waits for its handler
Quiescent ==
  /\ \A g \in 1..Len(gets) : gets[g].phase = "done"
  /\ \A s \in 1..Len(sets) : sets[s].phase = "done"
  /\ \A r \in 1..Len(runs) : runs[r].out # <<>>

\* the remote key of the cache entry of name
EntryPath(n) == IF variant = "list" THEN n ELSE _vars[n].path

\* C10 as stated: with the Resolver as the only writer of the store, in
\* every state where none of its operations is in flight, every name whose
\* cache entry was written by a successful set has var(name) equal to the
\* store's value at the entry's remote key, for every interleaving.
C10_AsStated ==
  Quiescent =>
    \A n \in Names :
      writer[n].op = "set" => Var(_vars, n) = store[EntryPath(n)]

\* C10 amended: as stated, for every name whose cache entry was last written
\* by a successful set whose write is the last one the store applied at its
\* key (sets whose completions are handled in another order than the store
\* applied their writes leave the cache behind the store).
C10_CacheMatchesStore ==
  Quiescent =>
    \A n \in Names :
      (writer[n].op = "set" /\ storeBy[sets[writer[n].id].path] = writer[n].id)
      => Var(_vars, n) = store[EntryPath(n)]

\* two sets have completed, the later one's value is in the cache and in
\* the store, replacing what the earlier one wrote at the same key
C10_Witness ==
  \E s, u \in 1..Len(sets) :
    /\ Quiescent
    /\ s # u
    /\ sets[s].path = sets[u].path
    /\ sets[s].val # sets[u].val
    /\ sets[s].promise.state = "resolved"
    /\ sets[u].promise.state = "resolved"
    /\ writer[sets[u].name] = [op |-> "set", id |-> u]
    /\ storeBy[sets[u].path] = u
    /\ Var(_vars, sets[u].name) = store[EntryPath(sets[u].name)]

\* the reads of run r that are in gets
ReadsOf(rds, r) == {g \in 1..Len(rds) : rds[g].run = r}

\* the last position of name in keys
LastPos(keys, n) == CHOOSE i \in 1..Len(keys) :
                      keys[i] = n /\ \A j \in (i + 1)..Len(keys) : keys[j] # n

\* C11 as stated: when every read of a list-variant run succeeds, its
\* promise resolves to a mapping whose key set is the set of names in keys
\* and which maps each name to the value fetched for it in this run, and at
\* that moment var(name) equals the returned value, for every list of keys,
\* lists that repeat a name included (looked at for the names whose cache
\* entry was last assigned by a read of this run, so that no other operation
\* accounts for a difference).
C11_AsStated ==
  [][\A r \in 1..Len(runs) :
       (variant = "list" /\ Reports(r) /\ runs'[r].out[1].err = NoErr)
       => LET ret == runs'[r].out[1].ret
          IN /\ DOMAIN ret = {RunKeys(r)[i] : i \in 1..Len(RunKeys(r))}
             /\ \A i \in 1..Len(RunKeys(r)) :
                  (writer[RunKeys(r)[i]].op = "get"
                   /\ writer[RunKeys(r)[i]].id \in ReadsOf(gets, r)) =>
                    /\ ret[RunKeys(r)[i]] = ResValue(RunRead(r, i).res)
                    /\ Var(_vars', RunKeys(r)[i]) = ret[RunKeys(r)[i]]]_allVars

\* C11 amended: when every read of a list-variant run succeeds, its promise
\* resolves to a mapping whose key set is the set of names in keys and which
\* maps each name to the value fetched by the read at the last position of
\* that name in keys; at that moment var(name) equals the returned value for
\* every name whose cache entry was last assigned by that same read.
C11_RetMapping ==
  [][\A r \in 1..Len(runs) :
       (variant = "list" /\ Reports(r) /\ runs'[r].out[1].err = NoErr)
       => LET ret == runs'[r].out[1].ret
          IN /\ DOMAIN ret = {RunKeys(r)[i] : i \in 1..Len(RunKeys(r))}
             /\ \A i \in 1..Len(RunKeys(r)) :
                  i = LastPos(RunKeys(r), RunKeys(r)[i]) =>
                    /\ ret[RunKeys(r)[i]] = ResValue(RunRead(r, i).res)
                    /\ LastWrittenByGet(RunKeys(r)[i], ReadOf(r, i))
                       => Var(_vars', RunKeys(r)[i]) = ret[RunKeys(r)[i]]]_allVars

\* a list-variant run over two different names has resolved to the mapping
\* of both names, and var returns the fetched value
C11_Witness ==
  \E r \in 1..Len(runs) :
    /\ variant = "list"
    /\ RunKeys(r) = <<"a", "b">>
    /\ runs[r].out # <<>> /\ runs[r].out[1].err = NoErr
    /\ DOMAIN runs[r].out[1].ret = {"a", "b"}
    /\ runs[r].out[1].ret["b"] = "v1"
    /\ LastWrittenByGet("b", ReadOf(r, 2))
    /\ Var(_vars, "b") = "v1"

\* a list-variant run over a repeated name has resolved to the value of its
\* second read while the cache holds the different value of its first read
C11_RepeatedName ==
  \E r \in 1..Len(runs) :
    /\ variant = "list"
    /\ RunKeys(r) = <<"a", "a">>
    /\ runs[r].out # <<>> /\ runs[r].out[1].err = NoErr
    /\ \A s \in 1..Len(sets) : sets[s].phase # "done"
    /\ runs[r].out[1].ret["a"] = ResValue(RunRead(r, 2).res)
    /\ Var(_vars, "a") = ResValue(RunRead(r, 1).res)
    /\ Var(_vars, "a") # runs[r].out[1].ret["a"]

\* a read or a write for name has completed successfully
Completed(n) ==
  \/ \E g \in 1..Len(gets) : gets[g].name = n /\ gets[g].promise.state = "resolved"
  \/ \E s \in 1..Len(sets) : sets[s].name = n /\ sets[s].promise.state = "resolved"

\* C12 as stated: for every name for which a read or a write has completed
\* successfully, the cached value is the value carried by the most recently
\* handled successful completion for the name; step by step: the step that
\* handles a successful completion for the name leaves that value in the
\* cache, and no other step changes the value of such a name.
C12_AsStated ==
  [][\A n \in Names :
       /\ \A g \in 1..Len(gets) :
            (GetHandled(g) /\ gets[g].err = NoErr /\ gets[g].name = n)
            => Var(_vars', n) = ResValue(gets[g].res)
       /\ \A s \in 1..Len(sets) :
            (SetHandled(s) /\ sets[s].err = NoErr /\ sets[s].name = n)
            => Var(_vars', n) = sets[s].val
       /\ (/\ Completed(n)
           /\ ~\E g \in 1..Len(gets) : GetHandled(g) /\ gets[g].name = n
           /\ ~\E s \in 1..Len(sets) : SetHandled(s) /\ sets[s].name = n)
          => Var(_vars', n) = Var(_vars, n)]_allVars

\* C12 amended: in every reachable state the cached value of a name is the
\* value carried by the most recently handled successful completion for the
\* name (read result or written value), unless a task registered the name
\* after that completion (mapped variant): then the value is absent.
C12_LastObservedValue ==
  \A n \in Names :
    /\ writer[n].op = "get" => Var(_vars, n) = ResValue(gets[writer[n].id].res)
    /\ writer[n].op = "set" => Var(_vars, n) = sets[writer[n].id].val
    /\ writer[n].op = "task" => Var(_vars, n) = Undef
    /\ writer[n].op = "none" => (~Completed(n) /\ Var(_vars, n) = Undef)

\* the value a set wrote for a name was replaced by the different value of a
\* read handled after it
C12_Witness ==
  \E n \in Names : \E g \in 1..Len(gets) : \E s \in 1..Len(sets) :
    /\ writer[n] = [op |-> "get", id |-> g]
    /\ sets[s].name = n
    /\ sets[s].promise.state = "resolved"
    /\ sets[s].val # ResValue(gets[g].res)
    /\ Var(_vars, n) = ResValue(gets[g].res)

\* C13: true fan-out: the call of a run function over n keys issues all n
\* reads, one per position, before the call returns, so every read of the
\* run has been issued when the completion of any of them is handled, and a
\* read of the run is served and handled whatever the state of the others.
C13_FanOut ==
  [][/\ \A r \in 1..Len(runs') :
          r > Len(runs) =>
            /\ Cardinality(ReadsOf(gets', r)) = Len(tasks[runs'[r].task].keys)
            /\ \A i \in 1..Len(tasks[runs'[r].task].keys) :
                 \E g \in ReadsOf(gets', r) :
                   g > Len(gets) /\ gets'[g].idx = i /\ gets'[g].phase = "sent"
     /\ \A g \in 1..Len(gets) :
          (gets[g].run # 0 /\ (GetHandled(g) \/ gets'[g].phase # gets[g].phase)) =>
            /\ Cardinality(ReadsOf(gets, gets[g].run)) = Len(RunKeys(gets[g].run))
            /\ ReadsOf(gets', gets[g].run) = ReadsOf(gets, gets[g].run)
            /\ \A h \in ReadsOf(gets, gets[g].run) \ {g} : gets'[h] = gets[h]]_allVars

\* the second read of a run over two keys has been handled while the first
\* read, issued before it, has not been served yet
C13_Witness ==
  \E r \in 1..Len(runs) :
    /\ Len(RunKeys(r)) = 2
    /\ RunRead(r, 1).phase = "sent"
    /\ RunRead(r, 2).phase = "done"
    /\ RunRead(r, 2).promise.state = "resolved"

\* run r is the only bulk run, of the only task, and nothing but its reads
\* has assigned the cache: no get was called and no set has been handled
SingleRun(r) ==
  /\ Len(runs) = 1
  /\ Len(tasks) = 1
  /\ \A g \in 1..Len(gets) : gets[g].run = r
  /\ \A s \in 1..Len(sets) : sets[s].phase # "done"

\* every read of run r has completed
AllDone(r) == \A i \in 1..Len(RunKeys(r)) : RunRead(r, i).phase = "done"

\* the positions of run r that read name and succeeded
Succeeded(r, n) ==
  {i \in 1..Len(RunKeys(r)) : RunKeys(r)[i] = n /\ RunRead(r, i).err = NoErr}

\* the cache and the outcome of run r are those of the completion order
\* 1, 2, ..., n: every name holds the result of its last successful position,
\* and the run succeeds exactly when every read succeeded
AsInKeyOrder(r) ==
  /\ \A n \in Names :
       Var(_vars, n) =
         IF Succeeded(r, n) = {} THEN Undef
         ELSE ResValue(RunRead(r, CHOOSE i \in Succeeded(r, n) :
                                     \A j \in Succeeded(r, n) : j <= i).res)
  /\ runs[r].out # <<>> =>
       (runs[r].out[1].err = NoErr
        <=> \A i \in 1..Len(RunKeys(r)) : RunRead(r, i).err = NoErr)

\* C14 as stated: for a single bulk run in which the result of each read is
\* fixed, every order in which the reads complete leads to the same final
\* cache and the same success outcome once all reads have completed.
C14_AsStated ==
  \A r \in 1..Len(runs) : (SingleRun(r) /\ AllDone(r)) => AsInKeyOrder(r)

\* the successful reads of a name in run r returned the same result
ReadsAgree(r) ==
  \A n \in Names : \A i, j \in Succeeded(r, n) : RunRead(r, i).res = RunRead(r, j).res

\* C14 amended: as stated, for a run whose names are pairwise different (as
\* in every mapped run) or whose reads of a repeated name returned the same
\* result; the reads of a repeated name that returned different results
\* leave the result of the read that completed last.
C14_OrderIndependence ==
  \A r \in 1..Len(runs) :
    (SingleRun(r) /\ AllDone(r) /\ ReadsAgree(r)) => AsInKeyOrder(r)

\* the two reads of a single run over two names completed in the reverse
\* order of the keys, one of them with a value, and the run has reported
C14_Witness ==
  \E r \in 1..Len(runs) :
    /\ SingleRun(r) /\ AllDone(r)
    /\ runs[r].order = <<2, 1>>
    /\ RunKeys(r)[1] # RunKeys(r)[2]
    /\ \E i \in 1..2 : RunRead(r, i).res.isObj
    /\ runs[r].out # <<>>
    /\ AsInKeyOrder(r)

\* run r has reported a failure to its caller
ReportedFailure(r) == runs[r].out # <<>> /\ runs[r].out[1].err # NoErr

\* C15: no cancellation after a bulk failure: the step that reports the
\* first error of a run leaves the other reads of the run in flight; each of
\* them that completes successfully afterwards stores its value in the
\* cache, so that var(name) returns it; and the caller of the run is not
\* notified again.
C15_NoCancellation ==
  [][\A r \in 1..Len(runs) :
       /\ (Reports(r) /\ runs'[r].out[1].err # NoErr) => gets' = gets
       /\ ReportedFailure(r) =>
            /\ runs'[r].out = runs[r].out
            /\ \A g \in ReadsOf(gets, r) :
                 /\ gets'[g].phase = gets[g].phase \/ gets[g].phase # "done"
                 /\ (GetHandled(g) /\ gets[g].err = NoErr) =>
                      /\ gets'[g].promise = Resolved(ResValue(gets[g].res))
                      /\ Var(_vars', gets[g].name) = ResValue(gets[g].res)]_allVars

\* a run over two keys reported the error of its first read when only that
\* read had completed; its second read completed later and var returns the
\* value it fetched; the handler was called once
C15_Witness ==
  \E r \in 1..Len(runs) :
    /\ ReportedFailure(r)
    /\ runs[r].seen = 1
    /\ Len(runs[r].order) = 2
    /\ Len(runs[r].out) = 1
    /\ LET i == runs[r].order[2]
       IN /\ RunRead(r, i).res.isObj
          /\ LastWrittenByGet(RunKeys(r)[i], ReadOf(r, i))
          /\ Var(_vars, RunKeys(r)[i]) = RunRead(r, i).res.Value

\* C16: registration in the mapped variant: the call task(vars) itself, with
\* the returned function not invoked, creates or overwrites for every name
\* of vars a cache entry that records the remote key with the value unset,
\* so that var(name) returns absent even if a value was cached before;
\* entries of other names are unchanged and no remote read is issued; the
\* call of the returned function resets no entry.
C16_Registration ==
  [][/\ (variant = "mapped" /\ Len(tasks') > Len(tasks)) =>
          LET vs == tasks'[Len(tasks')].vars
          IN /\ \A n \in DOMAIN vs :
                  /\ n \in DOMAIN _vars'
                  /\ _vars'[n] = [path |-> vs[n], value |-> Undef]
                  /\ Var(_vars', n) = Undef
             /\ \A n \in Names \ DOMAIN vs :
                  /\ n \in DOMAIN _vars' <=> n \in DOMAIN _vars
                  /\ n \in DOMAIN _vars => _vars'[n] = _vars[n]
             /\ gets' = gets
             /\ runs' = runs
             /\ store' = store
     /\ Len(runs') > Len(runs) => _vars' = _vars]_allVars

\* a second task registered name a again after a read had cached a value
\* for it: var(a) is absent and the entry records the new remote key, while
\* the entry of b, which the second task does not name, is as its read left it
C16_Witness ==
  /\ variant = "mapped"
  /\ Len(tasks) = 2
  /\ writer["a"] = [op |-> "task", id |-> 2]
  /\ \E g \in 1..Len(gets) :
       gets[g].name = "a" /\ gets[g].promise.state = "resolved"
       /\ gets[g].promise.value # Undef
  /\ _vars["a"] = [path |-> tasks[2].vars["a"], value |-> Undef]
  /\ Var(_vars, "a") = Undef
  /\ "b" \notin DOMAIN tasks[2].vars
  /\ writer["b"].op = "get"
  /\ _vars["b"].path = tasks[1].vars["b"]

\* the scheduling the liveness of a run rests on: the client answers every
\* read and calls its callback (the hypothesis that every issued read
\* eventually completes), and the event loop runs the handlers chained on a
\* settled promise
Fairness ==
  /\ \A g \in 1..MaxReads : WF_allVars(GetServe(g)) /\ WF_allVars(GetCallback(g))
  /\ \A r \in 1..MaxCalls : WF_allVars(Notify(r))

LiveSpec == Spec /\ Fairness

\* C17: if every issued read eventually completes, every invocation of a
\* run function eventually reports an outcome to its caller (a behaviour
\* has finitely many invocations and a report is never taken back, so from
\* some moment on every invocation made has reported); a run over no
\* variable issues no read, is settled as a success from the start and
\* reports success.
C17_RunsReport ==
  /\ <>[](\A r \in 1..Len(runs) : runs[r].out # <<>>)
  /\ [](\A r \in 1..Len(runs) :
          RunKeys(r) = <<>> =>
            /\ ReadsOf(gets, r) = {}
            /\ runs[r].all.state = "resolved"
            /\ runs[r].out # <<>> => runs[r].out[1].err = NoErr)

\* a run over no variable has reported success without a read being issued
C17_Witness ==
  \E r \in 1..Len(runs) :
    /\ RunKeys(r) = <<>>
    /\ gets = <<>>
    /\ runs[r].out # <<>>
    /\ runs[r].out[1].err = NoErr

\* read g completed with no error and no stored value
AbsentRead(g) == gets[g].err = NoErr /\ ~gets[g].res.isObj

\* C18: an absent key is a success: when a read completes with no error and
\* no stored value, its promise resolves (with no value), the cache entry of
\* the local name exists with the value absent, replacing any value cached
\* before, and var(name) returns absent; the read does not fail the bulk
\* run it belongs to, which succeeds when its other reads succeed.
C18_AbsentIsSuccess ==
  [][/\ \A g \in 1..Len(gets) :
          (GetHandled(g) /\ AbsentRead(g)) =>
            /\ gets'[g].promise = Resolved(Undef)
            /\ gets[g].name \in DOMAIN _vars'
            /\ Var(_vars', gets[g].name) = Undef
            /\ gets[g].run # 0 =>
                 /\ runs[gets[g].run].all.state = "pending"
                    => runs'[gets[g].run].all.state # "rejected"
                 /\ runs'[gets[g].run].all.state = "rejected"
                    => runs'[gets[g].run].all = runs[gets[g].run].all
     /\ \A r \in 1..Len(runs') :
          (\A g \in ReadsOf(gets', r) : gets'[g].phase = "done" /\ gets'[g].err = NoErr)
          => /\ runs'[r].all.state = "resolved"
             /\ runs'[r].out # <<>> => runs'[r].out[1].err = NoErr]_allVars

\* a read of a bulk run found no value after a set had cached one under the
\* same name: var returns absent and the run has reported success
C18_Witness ==
  \E g \in 1..Len(gets) : \E s \in 1..Len(sets) :
    /\ gets[g].phase = "done" /\ AbsentRead(g)
    /\ gets[g].promise = Resolved(Undef)
    /\ sets[s].name = gets[g].name
    /\ sets[s].promise.state = "resolved"
    /\ LastWrittenByGet(gets[g].name, g)
    /\ gets[g].name \in DOMAIN _vars
    /\ Var(_vars, gets[g].name) = Undef
    /\ gets[g].run # 0
    /\ runs[gets[g].run].out # <<>>
    /\ runs[gets[g].run].out[1].err = NoErr

\* C19: in the mapped variant the completion handler passed to a run is
\* called at most once per invocation of the run function, never with both
\* a success and an error, also when the handler throws while it is called
\* on the success path.
C19_HandlerOnce ==
  variant = "mapped" =>
    \A r \in 1..Len(runs) :
      /\ Len(runs[r].out) <= 1
      /\ ~\E i, j \in 1..Len(runs[r].out) :
            runs[r].out[i].err = NoErr /\ runs[r].out[j].err # NoErr

\* the names of the cache whose entry holds a value
Valued == {n \in DOMAIN _vars : Var(_vars, n) # Undef}

\* C20: in the mapped variant every cache entry that holds a value holds a
\* value that was read from, or written to, the remote key recorded in the
\* same entry, also when the name is registered by several tasks with
\* different remote keys or written by a three-argument set.
C20_PathAndValue ==
  variant = "mapped" =>
    \A n \in Valued :
      /\ writer[n].op \in {"get", "set"}
      /\ writer[n].op = "get" =>
           /\ _vars[n].value = ResValue(gets[writer[n].id].res)
           /\ _vars[n].path = gets[writer[n].id].path
      /\ writer[n].op = "set" =>
           /\ _vars[n].value = sets[writer[n].id].val
           /\ _vars[n].path = sets[writer[n].id].path

====
